---- MODULE Spec2Model ----
(***************************************************************************)
(* Model of src/src/App.jsx: the MapPage component (filter state, the      *)
(* point query loadPartners and its in-flight responses, the geolocation   *)
(* handler onLocate, the markers), the Recenter component driving the      *)
(* Leaflet view, and the UpdatesPage component with its announcements.     *)
(*                                                                         *)
(* One action is one turn of the JavaScript event loop: an event handler   *)
(* or a promise continuation, together with the React re-render and the    *)
(* effects that the state updates of that turn cause.                      *)
(***************************************************************************)
EXTENDS Integers, Sequences, FiniteSets, TLC

(***************************************************************************)
(* Bounds of the model.                                                    *)
(***************************************************************************)
\* at most this many point queries awaiting their response
MaxInFlight == 2
\* at most this many geolocation requests awaiting their callback
MaxGeoPending == 2

(***************************************************************************)
(* Program constants.                                                      *)
(***************************************************************************)
\* a slip: a button whose key the service does not know
CategoriesWithOther == {"all", "shop", "cafe", "university", "sports", "other"}

\* categories.map(c => c.key), App.jsx:23-29
Categories == {"all", "shop", "cafe", "university", "sports"}
\* texts the user can have in the search input
Texts == {"", "a"}
\* useState([57.15303, 65.53433]), in units of 1e-5 degree
DefaultCenter == <<5715303, 6553433>>
\* <MapContainer zoom={12}>
InitialZoom == 12
\* map.setView(center, 13)
RecenterZoom == 13
\* setError('Failed to load points')
FailedToLoad == "Failed to load points"

\* positions the device can report, the default centre among them
Positions == {DefaultCenter, <<100000, 200000>>}
\* zoom levels the user can choose on the map
Zooms == {12, 13, 14}

(***************************************************************************)
(* Point records as the service returns them (the fields the page reads).  *)
(***************************************************************************)
Rec(i, la, lo, c, h) ==
    [id |-> i, latitude |-> la, longitude |-> lo, has_cold |-> c, has_hot |-> h,
     name |-> i, address |-> "Lenina 1",
     \* an absent open_hours and an empty one are both falsy at line 112
     open_hours |-> IF h THEN "9-18" ELSE "",
     access_type |-> IF c THEN "free" ELSE "ask_staff",
     is_new |-> h]

R1 == Rec("p1", 5715000, 6553000, TRUE, FALSE)
R2 == Rec("p2", 5716000, 6554000, TRUE, TRUE)
R3 == Rec("p3", 5717000, 6555000, FALSE, FALSE)

\* item lists a response can carry; two of them overlap in R2
ItemLists == {<<>>, <<R1, R2>>, <<R2, R3>>}

\* What can come back for one request:
\*   network    fetch() rejects                       (line 85)
\*   malformed  res.json() rejects                    (line 86)
\*   null       the body is the JSON value null, so data.items throws (line 87)
\*   json       the body is a JSON object, with or without an items member
Responses ==
    {[kind |-> "network"], [kind |-> "malformed"], [kind |-> "null"]}
    \cup {[kind |-> "json", data |-> [total |-> 0]]}
    \cup {[kind |-> "json", data |-> [items |-> l]] : l \in ItemLists}

\* Announcement records, lines 173-178
Ann(i, t) == [id |-> i, title |-> t, content |-> t]

A1 == Ann("u1", "first")
A2 == Ann("u2", "second")
\* one with the optional external_url
A3 == [id |-> "u3", title |-> "third", content |-> "third", external_url |-> "https://t.me/H2OK_tyumen"]

AnnouncementLists == {<<>>, <<A1>>, <<A2, A1>>, <<A1, A2>>, <<A3>>, <<A3, A1>>}

\* what can come back for /api/updates, line 164: as for a point query
UpdatesResponses ==
    {[kind |-> "network"], [kind |-> "malformed"], [kind |-> "null"]}
    \cup {[kind |-> "json", data |-> [total |-> 0]]}
    \cup {[kind |-> "json", data |-> [items |-> l]] : l \in AnnouncementLists}

VARIABLES
    phase,        \* "created": first render done, no effect has run yet;
                  \* "mounted": the MapPage effect has run; "ready": Recenter too
    partners,     \* useState([])          line 64
    loading,      \* useState(true)        line 65
    error,        \* useState('')          line 66
    center,       \* useState([..])        line 68
    category,     \* useState('all')       line 69
    hasHot,       \* useState(false)       line 70
    hasCold,      \* useState(true)        line 71
    query,        \* useState('')          line 72
    mapView,      \* the Leaflet map's view: [center, zoom]
    inflight,     \* the requests sent and not yet answered, oldest first:
                  \* each is the parameter list that went out with it
    latest,       \* what became of the most recently issued point query
    geoPending,   \* getCurrentPosition calls whose callback has not run
    event,        \* the handler or continuation that ran last
    requested,    \* whether that handler called fetch for /api/partners
    received,     \* what that continuation was handed: the response of a
                  \* point query or the outcome of a position request
    updatesMounted,   \* whether an UpdatesPage is on screen
    items,            \* its useState([]), line 161
    updatesInflight   \* the /api/updates requests not yet answered, oldest
                      \* first: TRUE for the one of the page on screen

filterVars == <<category, hasHot, hasCold, query>>
queryVars == <<partners, loading, error, inflight, latest>>
viewVars == <<center, mapView>>
geoVars == <<geoPending>>
updVars == <<updatesMounted, items, updatesInflight>>
mapPageVars == <<phase, filterVars, queryVars, viewVars, geoVars>>
vars == <<mapPageVars, event, requested, received, updVars>>

(***************************************************************************)
(* loadPartners, lines 80-84: the URLSearchParams built from the values    *)
(* the closure captured, as the list of (name, value) pairs in the order   *)
(* they were set.                                                          *)
(***************************************************************************)
SetParam(params, name, value) ==
    IF \E i \in DOMAIN params : params[i][1] = name
    THEN [i \in DOMAIN params |->
            IF params[i][1] = name THEN <<name, value>> ELSE params[i]]
    ELSE Append(params, <<name, value>>)

WithCategory(params, c) ==
    IF c # "all" THEN SetParam(params, "category", c) ELSE params

\* a slip: the parameter is sent also when the box is off
WithHotAlways(params, h) ==
    SetParam(params, "has_hot", IF h THEN "true" ELSE "false")

WithHot(params, h) ==
    IF h THEN SetParam(params, "has_hot", "true") ELSE params

\* a slip: has_cold is never sent
WithColdOmitted(params, k) == params

\* a slip: the test is negated
WithColdInverted(params, k) ==
    IF ~k THEN SetParam(params, "has_cold", "true") ELSE params

WithCold(params, k) ==
    IF k THEN SetParam(params, "has_cold", "true") ELSE params

WithText(params, q) ==
    IF q # "" THEN SetParam(params, "q", q) ELSE params

ToQueryParameters(c, h, k, q) ==
    WithText(WithCold(WithHot(WithCategory(<<>>, c), h), k), q)

(***************************************************************************)
(* loadPartners, lines 76-85: up to the first await.                       *)
(***************************************************************************)
Pending == [status |-> "pending"]
Nothing == [kind |-> "none"]

\* a slip: the list is blanked while the request is on its way
LoadPartnersBlanking(c, h, k, q) ==
    /\ Len(inflight) < MaxInFlight
    /\ loading' = TRUE
    /\ error' = ""
    /\ inflight' = Append(inflight, ToQueryParameters(c, h, k, q))
    /\ latest' = Pending
    /\ requested' = TRUE
    /\ partners' = <<>>

LoadPartners(c, h, k, q) ==
    /\ Len(inflight) < MaxInFlight
    /\ loading' = TRUE
    /\ error' = ""
    /\ inflight' = Append(inflight, ToQueryParameters(c, h, k, q))
    /\ latest' = Pending
    /\ requested' = TRUE
    /\ UNCHANGED partners

NoRequest ==
    /\ requested' = FALSE
    /\ UNCHANGED queryVars

\* useEffect(() => { loadPartners() }, [category, hasHot, hasCold]), lines 95-97
\* a slip: hasCold is missing from the dependency list
EffectDepsNoCold(c, h, k, q) == <<c, h>>

\* a slip: query is in the dependency list
EffectDepsWithQuery(c, h, k, q) == <<c, h, k, q>>

EffectDeps(c, h, k, q) == <<c, h, k>>

\* a slip: the effect's request leaves the typed text out
RerenderWithoutText(c, h, k, q) ==
    IF EffectDeps(c, h, k, q) # EffectDeps(category, hasHot, hasCold, query)
    THEN LoadPartners(c, h, k, "")
    ELSE NoRequest

\* the re-render after a state update: the effect runs again, with the
\* closure of the new render, iff one of its dependencies changed
Rerender(c, h, k, q) ==
    IF EffectDeps(c, h, k, q) # EffectDeps(category, hasHot, hasCold, query)
    THEN LoadPartners(c, h, k, q)
    ELSE NoRequest

(***************************************************************************)
(* Mounting.                                                               *)
(***************************************************************************)
Init ==
    /\ phase = "created"
    /\ partners = <<>>
    /\ loading = TRUE
    /\ error = ""
    /\ center = DefaultCenter
    /\ category = "all"
    /\ hasHot = FALSE
    /\ hasCold = TRUE
    /\ query = ""
    /\ mapView = [center |-> DefaultCenter, zoom |-> InitialZoom]
    /\ inflight = <<>>
    /\ latest = [status |-> "none"]
    /\ geoPending = 0
    /\ event = "render"
    /\ requested = FALSE
    /\ received = Nothing
    /\ updatesMounted = FALSE
    /\ items = <<>>
    /\ updatesInflight = <<>>

\* the effect of lines 95-97 on mount
MapPageMount ==
    /\ phase = "created"
    /\ phase' = "mounted"
    /\ LoadPartners(category, hasHot, hasCold, query)
    /\ event' = "mount"
    /\ received' = Nothing
    /\ UNCHANGED updVars
    /\ UNCHANGED <<filterVars, viewVars, geoVars>>

\* map.setView(center, 13), line 58
SetView(c) == [center |-> c, zoom |-> RecenterZoom]

\* Recenter's effect on mount, lines 57-59: center is the default, not null
RecenterMount ==
    /\ phase = "mounted"
    /\ phase' = "ready"
    /\ mapView' = SetView(center)
    /\ event' = "recenter"
    /\ received' = Nothing
    /\ UNCHANGED updVars
    /\ NoRequest
    /\ UNCHANGED <<filterVars, center, geoVars>>

(***************************************************************************)
(* The filter controls and the search box.                                 *)
(***************************************************************************)
\* onClick={()=>setCategory(c.key)}, line 134
SetCategory(c) ==
    /\ phase = "ready"
    /\ category' = c
    /\ Rerender(c, hasHot, hasCold, query)
    /\ event' = "setCategory"
    /\ received' = Nothing
    /\ UNCHANGED updVars
    /\ UNCHANGED <<phase, hasHot, hasCold, query, viewVars, geoVars>>

\* onChange={e=>setHasCold(e.target.checked)}, line 139
SetHasCold ==
    /\ phase = "ready"
    /\ hasCold' = ~hasCold
    /\ Rerender(category, hasHot, ~hasCold, query)
    /\ event' = "setHasCold"
    /\ received' = Nothing
    /\ UNCHANGED updVars
    /\ UNCHANGED <<phase, category, hasHot, query, viewVars, geoVars>>

\* onChange={e=>setHasHot(e.target.checked)}, line 140
SetHasHot ==
    /\ phase = "ready"
    /\ hasHot' = ~hasHot
    /\ Rerender(category, ~hasHot, hasCold, query)
    /\ event' = "setHasHot"
    /\ received' = Nothing
    /\ UNCHANGED updVars
    /\ UNCHANGED <<phase, category, hasCold, query, viewVars, geoVars>>

\* onChange={e=>setQuery(e.target.value)}, line 127
SetQuery(t) ==
    /\ phase = "ready"
    /\ query' = t
    /\ Rerender(category, hasHot, hasCold, t)
    /\ event' = "setQuery"
    /\ received' = Nothing
    /\ UNCHANGED updVars
    /\ UNCHANGED <<phase, category, hasHot, hasCold, viewVars, geoVars>>

\* <button onClick={loadPartners}>Search</button>, line 128
Search ==
    /\ phase = "ready"
    /\ LoadPartners(category, hasHot, hasCold, query)
    /\ event' = "search"
    /\ received' = Nothing
    /\ UNCHANGED updVars
    /\ UNCHANGED <<phase, filterVars, viewVars, geoVars>>

(***************************************************************************)
(* The response of a point query, lines 85-92.  The two awaits (fetch,     *)
(* then res.json()) are one step: nothing is written between them, and     *)
(* every write happens in the continuation that runs after the second.     *)
(***************************************************************************)
\* whether the try block of lines 79-87 throws on this response
Throws(resp) == resp.kind \in {"network", "malformed", "null"}

\* data.items || [], line 87
ItemsOrEmpty(data) == IF "items" \in DOMAIN data THEN data.items ELSE <<>>

\* a slip: the list is emptied when the request fails
PartnersAfterClearing(resp, old) ==
    IF Throws(resp) THEN <<>> ELSE ItemsOrEmpty(resp.data)

\* a slip: the new items are added to the list
PartnersAfterMerging(resp, old) ==
    IF Throws(resp) THEN old ELSE old \o ItemsOrEmpty(resp.data)

\* setPartners(data.items || []) on success, nothing on failure
PartnersAfter(resp, old) == IF Throws(resp) THEN old ELSE ItemsOrEmpty(resp.data)

\* setError('Failed to load points') in the catch, nothing on success
ErrorAfter(resp, old) == IF Throws(resp) THEN FailedToLoad ELSE old

RemoveAt(s, i) == SubSeq(s, 1, i - 1) \o SubSeq(s, i + 1, Len(s))

Outcome(resp) ==
    IF Throws(resp)
    THEN [status |-> "failed"]
    ELSE [status |-> "ok", items |-> ItemsOrEmpty(resp.data)]

\* the i-th request in flight is answered with resp
ResolveQuery(i, resp) ==
    /\ phase = "ready"
    /\ i \in 1..Len(inflight)
    /\ inflight' = RemoveAt(inflight, i)
    /\ partners' = PartnersAfter(resp, partners)
    /\ error' = ErrorAfter(resp, error)
    /\ loading' = FALSE
    /\ latest' = IF i = Len(inflight) /\ latest = Pending
                 THEN Outcome(resp) ELSE latest
    /\ event' = IF Throws(resp) THEN "queryFailed" ELSE "queryLoaded"
    /\ received' = resp
    /\ UNCHANGED updVars
    /\ requested' = FALSE
    /\ UNCHANGED <<phase, filterVars, viewVars, geoVars>>

(***************************************************************************)
(* Geolocation, lines 99-104, and the Recenter effect, lines 55-61.        *)
(***************************************************************************)
\* onLocate up to the call of getCurrentPosition; supported is whether
\* navigator.geolocation exists (line 100)
OnLocate(supported) ==
    /\ phase = "ready"
    /\ IF supported
       THEN /\ geoPending < MaxGeoPending
            /\ geoPending' = geoPending + 1
            /\ event' = "locate"
       ELSE /\ UNCHANGED geoPending
            /\ event' = "locateUnsupported"
    /\ received' = Nothing
    /\ UNCHANGED updVars
    /\ NoRequest
    /\ UNCHANGED <<phase, filterVars, viewVars>>

\* Recenter's effect after a render: its dependency is the array held in
\* center, and setCenter is always given a new array (line 102), which the
\* dependency comparison tells from the previous one whatever it contains
\* a slip: the dependency is compared by its numbers
RecenterEffectByValue(old, new, view) == IF new # old THEN SetView(new) ELSE view

RecenterEffect(old, new, view) == SetView(new)

\* a slip: center is among the dependencies of the query effect
PositionFoundRequeries(pos) ==
    /\ phase = "ready"
    /\ geoPending > 0
    /\ geoPending' = geoPending - 1
    /\ center' = pos
    /\ mapView' = RecenterEffect(center, pos, mapView)
    /\ event' = "position"
    /\ received' = [kind |-> "position", coords |-> pos]
    /\ UNCHANGED updVars
    /\ LoadPartners(category, hasHot, hasCold, query)
    /\ UNCHANGED <<phase, filterVars>>

\* the success callback, line 102, and the re-render it causes
PositionFound(pos) ==
    /\ phase = "ready"
    /\ geoPending > 0
    /\ geoPending' = geoPending - 1
    /\ center' = pos
    /\ mapView' = RecenterEffect(center, pos, mapView)
    /\ event' = "position"
    /\ received' = [kind |-> "position", coords |-> pos]
    /\ UNCHANGED updVars
    /\ NoRequest
    /\ UNCHANGED <<phase, filterVars>>

\* a slip: an error callback that puts the map back on the default centre
PositionErrorResets ==
    /\ phase = "ready"
    /\ geoPending > 0
    /\ geoPending' = geoPending - 1
    /\ center' = DefaultCenter
    /\ mapView' = SetView(DefaultCenter)
    /\ event' = "positionError"
    /\ received' = [kind |-> "positionError"]
    /\ UNCHANGED updVars
    /\ NoRequest
    /\ UNCHANGED <<phase, filterVars>>

\* the position request fails: getCurrentPosition was given no error callback
PositionError ==
    /\ phase = "ready"
    /\ geoPending > 0
    /\ geoPending' = geoPending - 1
    /\ event' = "positionError"
    /\ received' = [kind |-> "positionError"]
    /\ UNCHANGED updVars
    /\ NoRequest
    /\ UNCHANGED <<phase, filterVars, viewVars>>

\* the user drags or zooms the map: Leaflet's own state, not React's
UserPanZoom(p, z) ==
    /\ phase = "ready"
    /\ mapView' = [center |-> p, zoom |-> z]
    /\ event' = "pan"
    /\ received' = Nothing
    /\ UNCHANGED updVars
    /\ NoRequest
    /\ UNCHANGED <<phase, filterVars, center, geoVars>>

(***************************************************************************)
(* The markers, lines 106-119: one Marker per record of partners, with its *)
(* key, its position and the lines of its popup.  A line is its name and   *)
(* the pieces of text it is made of.                                       *)
(***************************************************************************)
NameLine(p) ==
    [line |-> "name", text |-> <<p.name, " ">> \o (IF p.is_new THEN <<"new">> ELSE <<>>)]

AddressLine(p) == [line |-> "address", text |-> <<p.address>>]

\* {p.open_hours && <div>Hours: ...</div>}: no line without opening hours
HoursLines(p) ==
    IF p.open_hours # ""
    THEN << [line |-> "hours", text |-> <<"Hours: ", p.open_hours>>] >>
    ELSE <<>>

\* <div>Water: {p.has_cold ? 'cold' : ''} {p.has_hot ? '/ hot' : ''}</div>:
\* the div is there whatever the two flags are
WaterLines(p) ==
    << [line |-> "water",
        text |-> <<"Water: ", IF p.has_cold THEN "cold" ELSE "", " ",
                   IF p.has_hot THEN "/ hot" ELSE "">>] >>

AccessLine(p) ==
    [line |-> "access",
     text |-> <<"Access: ", IF p.access_type = "free" THEN "free" ELSE "ask staff">>]

DirectionsLine(p) ==
    [line |-> "directions",
     text |-> <<"https://www.google.com/maps/dir/?api=1&destination=",
                p.latitude, ",", p.longitude>>]

Popup(p) ==
    <<NameLine(p), AddressLine(p)>> \o HoursLines(p) \o WaterLines(p)
        \o <<AccessLine(p), DirectionsLine(p)>>

\* a slip: longitude first
MarkerOfSwapped(p) ==
    [key |-> p.id, position |-> <<p.longitude, p.latitude>>, popup |-> Popup(p)]

\* <Marker key={p.id} position={[p.latitude, p.longitude]}>
MarkerOf(p) ==
    [key |-> p.id, position |-> <<p.latitude, p.longitude>>, popup |-> Popup(p)]

\* partners.map(p => ...)
Markers(list) == [i \in DOMAIN list |-> MarkerOf(list[i])]

\* useMemo(..., [partners]): the markers on the map
markers == Markers(partners)

(***************************************************************************)
(* UpdatesPage, lines 160-184.                                             *)
(***************************************************************************)
\* a slip: the response's list is not stored
ItemsAfterDropped(resp, old) == old

\* .then(r=>r.json()).then(d=>setItems(d.items||[])).catch(()=>{}), line 164
ItemsAfter(resp, old) == IF Throws(resp) THEN old ELSE ItemsOrEmpty(resp.data)

\* the route /updates is entered: a new UpdatesPage renders with an empty
\* list and its effect, which has no dependencies, runs once
UpdatesMount ==
    /\ ~updatesMounted
    /\ Len(updatesInflight) < MaxInFlight
    /\ updatesMounted' = TRUE
    /\ items' = <<>>
    /\ updatesInflight' = Append(updatesInflight, TRUE)
    /\ event' = "updatesMount"
    /\ received' = Nothing
    /\ NoRequest
    /\ UNCHANGED <<phase, filterVars, viewVars, geoVars>>

\* the route is left: the page and its state are discarded, and the
\* requests still in flight belong to no page
UpdatesUnmount ==
    /\ updatesMounted
    /\ updatesMounted' = FALSE
    /\ items' = <<>>
    /\ updatesInflight' = [i \in DOMAIN updatesInflight |-> FALSE]
    /\ event' = "updatesUnmount"
    /\ received' = Nothing
    /\ NoRequest
    /\ UNCHANGED <<phase, filterVars, viewVars, geoVars>>

\* the i-th /api/updates request is answered with resp; setItems of a page
\* no longer on screen changes nothing
ResolveUpdates(i, resp) ==
    /\ i \in 1..Len(updatesInflight)
    /\ updatesInflight' = RemoveAt(updatesInflight, i)
    /\ IF updatesInflight[i]
       THEN /\ items' = ItemsAfter(resp, items)
            /\ event' = IF Throws(resp) THEN "updatesFailed" ELSE "updatesLoaded"
       ELSE /\ UNCHANGED items
            /\ event' = "updatesStale"
    /\ received' = resp
    /\ NoRequest
    /\ UNCHANGED <<phase, filterVars, viewVars, geoVars, updatesMounted>>

(***************************************************************************)
(* Specifications.                                                         *)
(***************************************************************************)
Mount == MapPageMount \/ RecenterMount

Resolve == \E i \in 1..MaxInFlight : \E resp \in Responses : ResolveQuery(i, resp)

Filter ==
    \/ \E c \in Categories : SetCategory(c)
    \/ SetHasCold
    \/ SetHasHot
    \/ \E t \in Texts : SetQuery(t)

Locate ==
    \/ \E supported \in BOOLEAN : OnLocate(supported)
    \/ \E pos \in Positions : PositionFound(pos)
    \/ PositionError
    \/ \E p \in Positions : \E z \in Zooms : UserPanZoom(p, z)

\* searching and toggling the checkboxes, with every response in every order
NextQuery == Mount \/ SetHasHot \/ SetHasCold \/ Search \/ Resolve
SpecQuery == Init /\ [][NextQuery]_vars

\* The page at rest under any filter criteria: every request so far was
\* answered, the last of them with an empty list.
InitIdle ==
    /\ phase = "ready"
    /\ partners = <<>>
    /\ loading = FALSE
    /\ error = ""
    /\ center = DefaultCenter
    /\ category \in Categories
    /\ hasHot \in BOOLEAN
    /\ hasCold \in BOOLEAN
    /\ query \in Texts
    /\ mapView = SetView(DefaultCenter)
    /\ inflight = <<>>
    /\ latest = [status |-> "ok", items |-> <<>>]
    /\ geoPending = 0
    /\ event = "queryLoaded"
    /\ requested = FALSE
    /\ received = [kind |-> "json", data |-> [items |-> <<>>]]
    /\ updatesMounted = FALSE
    /\ items = <<>>
    /\ updatesInflight = <<>>

\* every filter control and the search box, from any filter criteria,
\* while the requests they send are awaiting their responses
NextFilter == Filter \/ Search
SpecFilter == InitIdle /\ [][NextFilter]_vars

\* the updates feed: entering and leaving the route, with every response
NextUpdates ==
    \/ UpdatesMount
    \/ UpdatesUnmount
    \/ \E i \in 1..MaxInFlight : \E resp \in UpdatesResponses : ResolveUpdates(i, resp)
SpecUpdates == Init /\ [][NextUpdates]_vars

\* geolocation and the map, with searches going on
NextLocate == Mount \/ Locate \/ Search \/ Resolve
SpecLocate == Init /\ [][NextLocate]_vars

(***************************************************************************)
(* Properties.                                                             *)
(***************************************************************************)
Range(seq) == {seq[i] : i \in DOMAIN seq}
Last(seq) == seq[Len(seq)]

\* a parameter list as a set of (name, value) pairs, and its names
ParamSet(params) == {params[i] : i \in DOMAIN params}
ParamNames(params) == {params[i][1] : i \in DOMAIN params}

\* the parameter set the filter criteria of the current state call for
Expected ==
    (IF category # "all" THEN {<<"category", category>>} ELSE {})
    \cup (IF hasHot THEN {<<"has_hot", "true">>} ELSE {})
    \cup (IF hasCold THEN {<<"has_cold", "true">>} ELSE {})
    \cup (IF query # "" THEN {<<"q", query>>} ELSE {})

AtDefaults == category = "all" /\ hasCold /\ ~hasHot /\ query = ""

\* C1: once every point query has been answered, the displayed point set is
\* the result of the most recently issued one, whatever the order in which
\* the responses arrived.
LastIssuedWins ==
    (inflight = <<>> /\ latest.status = "ok") => partners = latest.items

\* C2: a step in which a point query fails leaves the displayed point set as
\* it was and makes the inline error message visible.
FailureKeepsPartners ==
    [][event' = "queryFailed" =>
          /\ Throws(received')
          /\ partners' = partners
          /\ error' = FailedToLoad
          /\ error' # ""]_vars

\* a failed response arrived while a non-empty result was displayed
FailureKeepsPartnersWitness ==
    /\ event = "queryFailed"
    /\ received.kind = "malformed"
    /\ partners = <<R1, R2>>
    /\ error = FailedToLoad

\* C3: a step in which a point query succeeds with an item list makes the
\* displayed point set exactly that list: no record of the previous set that
\* the response lacks remains, and nothing of the previous set is merged in.
SuccessReplacesPartners ==
    [][(event' = "queryLoaded" /\ "items" \in DOMAIN received'.data) =>
          /\ partners' = received'.data.items
          /\ \A r \in Range(partners) :
                r \notin Range(received'.data.items) => r \notin Range(partners')]_vars

\* the list <<R2, R3>> has been applied: R1, if it was displayed, is gone
SuccessReplacesPartnersWitness ==
    /\ event = "queryLoaded"
    /\ received = [kind |-> "json", data |-> [items |-> <<R2, R3>>]]
    /\ partners = <<R2, R3>>

\* C4 as stated: a query issued under the default criteria carries no
\* parameter.
DefaultsSerializeEmpty ==
    (requested /\ AtDefaults) => ParamSet(Last(inflight)) = {}

\* C4 as amended: a query issued under the default criteria carries exactly
\* has_cold=true.
DefaultsSerializeCold ==
    (requested /\ AtDefaults) => Last(inflight) = << <<"has_cold", "true">> >>

\* Search was pressed under the default criteria
DefaultsSerializeColdWitness ==
    requested /\ AtDefaults /\ event = "search"

\* C5: a query just issued carries category iff it is not all, has_hot=true
\* iff hasHot, has_cold=true iff hasCold, q iff the text is not empty, each
\* once and nothing else; hot alone yields exactly has_hot=true.
ParametersMatchCriteria ==
    requested =>
        /\ ParamSet(Last(inflight)) = Expected
        /\ Len(Last(inflight)) = Cardinality(Expected)
        /\ ParamNames(Last(inflight)) \subseteq {"category", "has_hot", "has_cold", "q"}
        /\ (category = "all" /\ hasHot /\ ~hasCold /\ query = "" =>
               Last(inflight) = << <<"has_hot", "true">> >>)

\* cold off, hot on, then Search
ParametersMatchCriteriaWitness ==
    /\ requested
    /\ event = "search"
    /\ category = "all" /\ hasHot /\ ~hasCold /\ query = ""
    /\ Last(inflight) = << <<"has_hot", "true">> >>

\* C6 as stated: with category shop and hasHot on, a query just issued
\* carries category=shop and has_hot=true and never has_cold.
ShopHotNeverCold ==
    (requested /\ category = "shop" /\ hasHot) =>
        /\ {<<"category", "shop">>, <<"has_hot", "true">>} \subseteq ParamSet(Last(inflight))
        /\ "has_cold" \notin ParamNames(Last(inflight))

\* C6 as amended: it carries category=shop and has_hot=true, has_cold=true
\* iff hasCold, and exactly the two when hasCold is off and the text empty.
ShopHotColdIffRequired ==
    (requested /\ category = "shop" /\ hasHot) =>
        /\ {<<"category", "shop">>, <<"has_hot", "true">>} \subseteq ParamSet(Last(inflight))
        /\ (<<"has_cold", "true">> \in ParamSet(Last(inflight)) <=> hasCold)
        /\ ("has_cold" \in ParamNames(Last(inflight)) <=> hasCold)
        /\ (~hasCold /\ query = "" =>
               ParamSet(Last(inflight)) = {<<"category", "shop">>, <<"has_hot", "true">>})

\* a query went out for shop, hot on, cold off, no text
ShopHotColdIffRequiredWitness ==
    /\ requested
    /\ category = "shop" /\ hasHot /\ ~hasCold /\ query = ""
    /\ Len(Last(inflight)) = 2

FilterEvents == {"setCategory", "setHasHot", "setHasCold"}

\* C7 as stated: every use of a category button or of a checkbox issues a
\* point query carrying the criteria as they are after it.
FilterEventRequeries ==
    event \in FilterEvents =>
        /\ requested
        /\ Last(inflight) = ToQueryParameters(category, hasHot, hasCold, query)

\* C7 as amended: a use of a category button or of a checkbox that changes
\* the value issues, in the same step, exactly one point query carrying the
\* criteria as they are after it; choosing the category already selected
\* issues none.
FilterChangeRequeries ==
    [][/\ (event' \in FilterEvents
            /\ <<category, hasHot, hasCold>>' # <<category, hasHot, hasCold>>) =>
              /\ requested'
              /\ inflight' = Append(inflight,
                    ToQueryParameters(category', hasHot', hasCold', query'))
              /\ ParamSet(Last(inflight')) = Expected'
       /\ (event' = "setCategory" /\ category' = category) =>
              /\ ~requested'
              /\ inflight' = inflight]_vars

\* the Cold box was toggled while an earlier query was still in flight
FilterChangeRequeriesWitness ==
    /\ event = "setHasCold"
    /\ requested
    /\ Len(inflight) = 2
    /\ inflight[1] # inflight[2]

\* C8: a change of the text issues no point query; Search issues exactly
\* one, built from the criteria of that moment, and changes no criterion.
SearchOnlyOnRequest ==
    [][/\ event' = "setQuery" => (~requested' /\ inflight' = inflight)
       /\ event' = "search" =>
              /\ requested'
              /\ inflight' = Append(inflight,
                    ToQueryParameters(category, hasHot, hasCold, query))
              /\ ParamSet(Last(inflight')) = Expected
              /\ <<category, hasHot, hasCold, query>>' = <<category, hasHot, hasCold, query>>]_vars

\* Search was pressed with a text typed in
SearchOnlyOnRequestWitness ==
    /\ event = "search"
    /\ query = "a"
    /\ requested
    /\ <<"q", "a">> \in ParamSet(Last(inflight))

\* C9: a failed position request (no geolocation object, or the request
\* fails) changes neither the centre, nor the map's view, nor the error
\* message.
LocateFailureSilent ==
    [][event' \in {"positionError", "locateUnsupported"} =>
          UNCHANGED <<center, mapView, error>>]_vars

\* a position request failed after an earlier one had moved the map
LocateFailureSilentWitness ==
    /\ event = "positionError"
    /\ center # DefaultCenter
    /\ mapView = SetView(center)
    /\ error = ""

\* C10: after each position callback the centre is the position reported
\* and the map's view is that position at the recenter zoom, also when the
\* position equals the centre already held.
LocationRecenters ==
    event = "position" =>
        /\ center = received.coords
        /\ mapView = [center |-> received.coords, zoom |-> RecenterZoom]

\* a position other than the default was reported and the map moved there
LocationRecentersWitness ==
    /\ event = "position"
    /\ received.coords # DefaultCenter
    /\ mapView.center = received.coords
    /\ mapView.zoom = 13

\* C11 as stated: the map's view changes only in the step of a position
\* callback or when the user drags or zooms the map; mounting, filters,
\* searches and responses leave the initial view (default centre, zoom 12).
ViewSetOnlyByLocation ==
    [][mapView' # mapView => event' \in {"position", "pan"}]_vars

\* C12 as stated: after a response with an empty or absent item list has
\* been applied, no marker is displayed and no error message is visible.
EmptyResultShowsNoError ==
    (event = "queryLoaded" /\ ItemsOrEmpty(received.data) = <<>>) =>
        (markers = <<>> /\ error = "")

\* C13: entering the updates view sends exactly one request; a response
\* to the page on screen that fails leaves its list empty, one that
\* succeeds makes the list the response's items, or empty without items;
\* the error message is touched by none of these steps.
UpdatesFetchedOnce ==
    [][/\ event' = "updatesMount" =>
              /\ updatesInflight' = Append(updatesInflight, TRUE)
              /\ items' = <<>>
       /\ event' = "updatesFailed" => items' = <<>>
       /\ event' = "updatesLoaded" =>
              items' = (IF "items" \in DOMAIN received'.data
                        THEN received'.data.items ELSE <<>>)
       /\ event' \in {"updatesMount", "updatesFailed", "updatesLoaded",
                      "updatesStale", "updatesUnmount"} =>
              /\ error' = error
              /\ Len(updatesInflight') <= Len(updatesInflight) + 1]_vars

\* the page on screen has received its list of two announcements
UpdatesFetchedOnceWitness ==
    /\ event = "updatesLoaded"
    /\ updatesMounted
    /\ items = <<A2, A1>>
    /\ updatesInflight = <<>>

\* C14: the markers are as many as the records and in their order, the
\* i-th keyed by the i-th record's id at its (latitude, longitude); so the
\* keys are the ids in the order of the list.
MarkersFollowRecords ==
    /\ Len(markers) = Len(partners)
    /\ \A i \in DOMAIN partners :
          /\ markers[i].key = partners[i].id
          /\ markers[i].position = <<partners[i].latitude, partners[i].longitude>>
    /\ [i \in DOMAIN markers |-> markers[i].key] = [i \in DOMAIN partners |-> partners[i].id]

\* two records are displayed
MarkersFollowRecordsWitness ==
    /\ partners = <<R2, R3>>
    /\ markers[1].key = "p2" /\ markers[2].key = "p3"
    /\ markers[2].position = <<5717000, 6555000>>

WaterText(m) == {l.text : l \in {x \in Range(m.popup) : x.line = "water"}}

\* C15 as stated: every record has its marker; the popup of a record with
\* neither cold nor hot water has no water line, and the popup of any
\* other record has one that names exactly the kinds it has.
NoWaterLineWithoutWater ==
    /\ Len(markers) = Len(partners)
    /\ \A i \in DOMAIN partners :
          IF ~partners[i].has_cold /\ ~partners[i].has_hot
          THEN WaterText(markers[i]) = {}
          ELSE \E t \in WaterText(markers[i]) :
                  /\ ("cold" \in Range(t) <=> partners[i].has_cold)
                  /\ ("/ hot" \in Range(t) <=> partners[i].has_hot)

\* C16: a step that issues a point query leaves the displayed point set as
\* it was, and the set changes only in a step that applies a response.
IssueKeepsPartners ==
    [][/\ requested' => partners' = partners
       /\ partners' # partners => event' = "queryLoaded"]_vars

\* a query is on its way while the earlier result is still displayed
IssueKeepsPartnersWitness ==
    /\ requested
    /\ latest = Pending
    /\ partners = <<R1, R2>>

\* C17: a step of the geolocation (the button, a position, a failure)
\* leaves the criteria, the point set, the error message and the requests
\* in flight as they were; a step that issues or answers a point query
\* leaves the centre and the map's view as they were.
LocateAndQueryIndependent ==
    [][/\ event' \in {"locate", "locateUnsupported", "position", "positionError"} =>
              /\ ~requested'
              /\ UNCHANGED <<category, hasHot, hasCold, query, partners, error, inflight>>
       /\ event' \in {"mount", "search", "queryLoaded", "queryFailed"} =>
              UNCHANGED <<center, mapView>>]_vars

\* a position arrived while a point query was in flight and an earlier
\* result was displayed
LocateAndQueryIndependentWitness ==
    /\ event = "position"
    /\ inflight # <<>>
    /\ partners = <<R1, R2>>
    /\ center # DefaultCenter

\* C18: the category is one of the five keys and the text is a string.
CriteriaWellFormed ==
    /\ category \in {"all", "shop", "cafe", "university", "sports"}
    /\ query \in STRING

\* every control has been used: a category chosen, with a text typed in
CriteriaWellFormedWitness ==
    /\ event = "setCategory"
    /\ category = "sports"
    /\ query = "a"
    /\ requested

\* C19 as stated: with no point query in flight, the error message is
\* visible exactly when the most recently issued query failed.
ErrorIffLatestFailed ==
    (inflight = <<>> /\ latest.status \in {"ok", "failed"}) =>
        (error # "" <=> latest.status = "failed")

\* C20: a query issued by a filter change or by Search carries all four
\* criteria as they are after that step, the typed text among them; and
\* the parameters of the requests already in flight stay as they were.
RequestIsSnapshot ==
    [][/\ requested' =>
              /\ Last(inflight') =
                    ToQueryParameters(category', hasHot', hasCold', query')
              /\ (query' # "" <=> <<"q", query'>> \in ParamSet(Last(inflight')))
       /\ \A i \in DOMAIN inflight : inflight'[i] = inflight[i]]_vars

\* the Hot box was toggled with a text typed in and never searched for:
\* the only request sent carries the text
RequestIsSnapshotWitness ==
    /\ event = "setHasHot"
    /\ requested
    /\ query = "a"
    /\ Len(inflight) = 1
    /\ <<"q", "a">> \in ParamSet(inflight[1])

====
